---------------------------- MODULE Spec2Model ----------------------------
(***************************************************************************)
(* Model of the SENTINEL-BOT early-signal pipeline:                        *)
(*   - PumpBondingMonitor   (src/PUMP_BONDING_MONITOR.PY): the curve       *)
(*     progress resolver with its live / cache / primary / fallback tiers. *)
(*   - EarlySignalsMonitor  (src/EARLY_SIGNALS_MONITOR.PY): the            *)
(*     aggregation loop, the per-token evaluation and the scorer.          *)
(*   - SignalAggregator     (signal_aggregator, not part of src/): the     *)
(*     event store behind get_hot_tokens, modelled from spec.md 4.2.       *)
(*                                                                         *)
(* Time is asyncio's loop.time(), in whole seconds.  Every coroutine is    *)
(* cut at its awaits that really suspend: one action is the code that runs *)
(* between two suspension points of the single event-loop thread.          *)
(*                                                                         *)
(* Percentages are kept exact: a percentage p is the integer               *)
(* p * GRADUATION_MCAP (see Pct), so (market_cap / GRADUATION_MCAP) * 100  *)
(* is market_cap * 100 with no rounding.  SOL amounts are kept in units of *)
(* 1 / SOL_PRICE_USD SOL for the same reason.                              *)
(***************************************************************************)
EXTENDS Integers, Sequences, FiniteSets, TLC

VARIABLES
    now,               \* asyncio.get_event_loop().time()
    bm_running,        \* PumpBondingMonitor.running
    session,           \* PumpBondingMonitor.session: "None" | "open" | "closed"
    live_tokens,       \* PumpBondingMonitor.live_tokens
    token_cache,       \* PumpBondingMonitor.token_cache
    inflight,          \* per calling task: the get_curve_progress call suspended in the primary fetch
    ret,               \* the return of get_curve_progress its caller is about to resume with
    cache_latest,      \* history: per token, the cached snapshot is the most recent one returned
    ws,                \* PumpBondingMonitor.ws, the connection of the listener: "None" | "open" | "closed"
    listener,          \* the _websocket_listener task: where it is suspended, when its backoff ends
    running,           \* EarlySignalsMonitor.running
    signal_callback,   \* EarlySignalsMonitor.signal_callback: "None" | "set"
    processed_tokens,  \* EarlySignalsMonitor.processed_tokens
    events,            \* SignalAggregator: per token, the stored signal events in arrival order
    loop,              \* _aggregation_loop: where it stands, its hot_tokens, the tokens still to visit,
                       \* what has_seen returned for the token in evaluation, what raised in this pass
    alert_count,       \* history: per token, how often the alert callback was invoked
    last_eval,         \* history: per token, the input and the outcome of its most recent evaluation
    ev                 \* history: what the loop did in the step it just took; in the scorer and
                       \* scan specifications, the call just made with its arguments and result

rvars == <<now, bm_running, session, live_tokens, token_cache, inflight, ret, cache_latest,
           ws, listener>>

cvars == <<running, signal_callback, processed_tokens, events, loop, alert_count, last_eval, ev>>

vars == <<rvars, cvars>>

----------------------------------------------------------------------------
(* Bounds of the model *)

\* the token mints of the model
Tokens == {"t1", "t2"}

\* the clock of the resolver specification runs over 0, 15, ..., 15 * MaxTicks
MaxTicks == 4

Times == {k * 15 : k \in 0..MaxTicks}

\* tasks other than the coordinator that call get_curve_progress
ExtCallers == {"a"}

\* the coordinator's evaluation as a caller of get_curve_progress
Coord == "coord"

Callers == ExtCallers \cup {Coord}

\* the clock of the coordinator specification runs over 0, 30, ..., 30 * MaxPasses
MaxPasses == 1

\* the aggregator holds at most MaxSignals events
MaxSignals == 2

----------------------------------------------------------------------------
(* Program constants *)

GRADUATION_MCAP == 69000

SOL_PRICE_USD == 200

LIVE_MAX_AGE == 60

cache_ttl == 30

HTTP_TIMEOUT == 5

\* Python's None
None == [none |-> TRUE]

\* an exception propagating out of a block
Raise == [raise |-> TRUE]

\* the percentage p in the model's exact representation
Pct(p) == p * GRADUATION_MCAP

Min2(a, b) == IF a <= b THEN a ELSE b

----------------------------------------------------------------------------
(* Inputs *)

\* messages of the push feed: data of _process_websocket_message
FeedMessages ==
    { [txType |-> "buy",    marketCapSol |-> 34,  vSolInBondingCurve |-> 30],   \* 6800 USD,  9.86 %
      [txType |-> "buy",    marketCapSol |-> 500, vSolInBondingCurve |-> 85],   \* 100000 USD, above graduation
      [txType |-> "create", marketCapSol |-> 34,  vSolInBondingCurve |-> 30] }  \* not a trade

\* the mint field of a feed message; "" is a missing mint
FeedMints == Tokens \cup {""}

\* outcomes of the GET on frontend-api.pump.fun
ApiResponses ==
    { [kind |-> "ok",        usd_market_cap |-> 13110,   reply_count |-> 0],    \* 19 %
      [kind |-> "ok",        usd_market_cap |-> 0 - 6900, reply_count |-> 0],   \* negative
      [kind |-> "status",    usd_market_cap |-> 0,       reply_count |-> 0],    \* resp.status != 200
      [kind |-> "timeout",   usd_market_cap |-> 0,       reply_count |-> 0],    \* asyncio.TimeoutError
      [kind |-> "empty",     usd_market_cap |-> 0,       reply_count |-> 0],    \* falsy JSON body
      [kind |-> "malformed", usd_market_cap |-> 0,       reply_count |-> 0] }   \* resp.json() / float() raises

----------------------------------------------------------------------------
(* PumpBondingMonitor: pure parts *)

\* min((market_cap / GRADUATION_MCAP) * 100, 100)
CurveCompletion(market_cap) == Min2(market_cap * 100, Pct(100))

\* mutant: the live tier takes an entry of exactly 60 s
LiveAgeFresh_OffByOne(age) == age <= LIVE_MAX_AGE

\* `age < 60` of the live tier
LiveAgeFresh(age) == age < LIVE_MAX_AGE

\* mutant: the cache tier takes an entry of exactly the TTL
CacheAgeFresh_OffByOne(age) == age <= cache_ttl

\* `age < self.cache_ttl` of the cache tier
CacheAgeFresh(age) == age < cache_ttl

\* the entry _process_websocket_message stores for a trade
LiveEntry(data, t) ==
    [ market_cap_usd |-> data.marketCapSol * SOL_PRICE_USD,
      sol_amount     |-> data.vSolInBondingCurve * SOL_PRICE_USD,
      last_updated   |-> t ]

\* live_tokens after _process_websocket_message(data)
ProcessWebsocketMessage(lt, mint, data, t) ==
    IF data.txType \in {"buy", "sell"} /\ mint # ""
    THEN [lt EXCEPT ![mint] = LiveEntry(data, t)]
    ELSE lt

\* the snapshot tier 1 builds from a live entry
LiveSnapshot(live_data) ==
    [ completion_percent |-> CurveCompletion(live_data.market_cap_usd),
      market_cap_usd     |-> live_data.market_cap_usd,
      sol_raised         |-> live_data.sol_amount,
      holder_count       |-> 0,
      volume_24h         |-> 0,
      source             |-> "websocket_live" ]

\* the snapshot _get_from_pumpfun_api builds from a JSON body
ApiSnapshot(data) ==
    [ completion_percent |-> CurveCompletion(data.usd_market_cap),
      market_cap_usd     |-> data.usd_market_cap,
      sol_raised         |-> data.usd_market_cap,
      holder_count       |-> data.reply_count,
      volume_24h         |-> 0,
      source             |-> "pumpfun_api" ]

\* tier 1 applies: the token has a live entry and it is fresh
LiveUsable(lt, tok, t) ==
    /\ lt[tok] # None
    /\ LiveAgeFresh(t - lt[tok].last_updated)

\* tier 2 applies: the token has a cache entry and it is fresh
CacheUsable(tc, tok, t) ==
    /\ tc[tok] # None
    /\ CacheAgeFresh(t - tc[tok].timestamp)

\* mutant: _get_from_pumpfun_api lets the exception out
PumpfunExcept_Missing(v) == v

\* _get_from_pumpfun_api's `except Exception: return None`
PumpfunExcept(v) == IF v = Raise THEN None ELSE v

\* _get_from_helius_fallback's `except Exception: return None`
HeliusExcept(v) == IF v = Raise THEN None ELSE v

\* get_curve_progress's `except Exception: return None`
CurveProgressExcept(v) == IF v = Raise THEN None ELSE v

\* the body of _get_from_pumpfun_api's try block, given how the request ends
PumpfunRequest(sess, resp, elapsed) ==
    IF sess # "open" THEN Raise                        \* None.get / closed session
    ELSE IF elapsed >= HTTP_TIMEOUT THEN Raise         \* timeout=5
    ELSE IF resp.kind \in {"timeout", "malformed"} THEN Raise
    ELSE IF resp.kind = "status" THEN None
    ELSE IF resp.kind = "empty" THEN None
    ELSE ApiSnapshot(resp)

GetFromPumpfunApi(sess, resp, elapsed) ==
    PumpfunExcept(PumpfunRequest(sess, resp, elapsed))

\* _get_from_helius_fallback: not implemented, with or without an API key
GetFromHeliusFallback(tok) == HeliusExcept(None)

\* the entry get_curve_progress caches after a successful primary pull
CacheEntry(curve_data, t) == [data |-> curve_data, timestamp |-> t]

\* `if curve_data:` after the primary pull
PullSucceeded(curve_data) == curve_data # None /\ curve_data # Raise

\* mutant: the result of the pull is cached whether or not it succeeded
CacheAfterPull_Always(tc, tok, curve_data, t) ==
    [tc EXCEPT ![tok] = [data |-> curve_data, timestamp |-> t]]

\* token_cache after the primary pull returned curve_data
CacheAfterPull(tc, tok, curve_data, t) ==
    IF PullSucceeded(curve_data) THEN [tc EXCEPT ![tok] = CacheEntry(curve_data, t)] ELSE tc

\* what the try block of get_curve_progress yields after the primary pull
ResultAfterPull(tok, curve_data) ==
    IF curve_data = Raise THEN Raise
    ELSE IF PullSucceeded(curve_data) THEN curve_data
    ELSE GetFromHeliusFallback(tok)

\* the tiers get_curve_progress went through after the primary pull
TiersAfterPull(curve_data) ==
    IF curve_data = None THEN <<"live", "cache", "primary", "fallback">>
    ELSE <<"live", "cache", "primary">>

\* the return of get_curve_progress to caller c; pull is how the primary request ended
Return(c, tok, result, tiers, pull) ==
    [ caller |-> c, token |-> tok, result |-> CurveProgressExcept(result),
      tiers |-> tiers, pull |-> pull ]

\* history: after the return r, is the cached snapshot of r.token the most recent
\* snapshot get_curve_progress returned for it?  tc is token_cache after the return.
Returned(cl, tc, r) ==
    IF r.result # None /\ r.result # Raise
    THEN [cl EXCEPT ![r.token] = (tc[r.token] # None /\ tc[r.token].data = r.result)]
    ELSE cl

\* variant: an entry of exactly max_age is left out
RangeAgeRecent_Strict(age, max_age) == age < max_age

\* `if age > max_age: continue` of get_cached_tokens_by_curve_range
RangeAgeRecent(age, max_age) == ~(age > max_age)

\* `if min_pct <= completion_pct <= max_pct`
RangeHolds(completion_pct, min_pct, max_pct) ==
    min_pct <= completion_pct /\ completion_pct <= max_pct

\* the entry get_cached_tokens_by_curve_range builds for a live token (without symbol)
RangeEntry(data) ==
    [ completion_percent |-> CurveCompletion(data.market_cap_usd),
      market_cap_usd     |-> data.market_cap_usd,
      source             |-> "websocket" ]

\* get_cached_tokens_by_curve_range(min_pct, max_pct, max_age) at time t
GetCachedTokensByCurveRange(lt, min_pct, max_pct, max_age, t) ==
    LET hit == { mint \in Tokens :
                   /\ lt[mint] # None
                   /\ RangeAgeRecent(t - lt[mint].last_updated, max_age)
                   /\ RangeHolds(CurveCompletion(lt[mint].market_cap_usd), min_pct, max_pct) }
    IN [mint \in hit |-> RangeEntry(lt[mint])]

\* `await asyncio.sleep(5)` before the listener reconnects
RECONNECT_DELAY == 5

\* `while self.running` of the listener's outer loop: it connects again or ends
ListenerLoopTop(run) == IF run THEN "connecting" ELSE "done"

\* the outer except of the listener: log, sleep 5 s
ListenerBackoff(t) == [pc |-> "backoff", wake |-> t + RECONNECT_DELAY]

----------------------------------------------------------------------------
(* PumpBondingMonitor: operations *)

\* start(): running flag, HTTP session, listener task
BondingStart ==
    /\ ret = None
    /\ ~bm_running
    /\ session = "None"
    /\ bm_running' = TRUE
    /\ session' = "open"
    /\ listener' = [listener EXCEPT !.pc = ListenerLoopTop(TRUE)]
    /\ UNCHANGED <<now, live_tokens, token_cache, inflight, ret, cache_latest, ws>>

\* stop(): clears the flag, closes the connection and the session
BondingStop ==
    /\ ret = None
    /\ bm_running
    /\ bm_running' = FALSE
    /\ ws' = IF ws = "open" THEN "closed" ELSE ws
    /\ session' = IF session = "open" THEN "closed" ELSE session
    /\ UNCHANGED <<now, live_tokens, token_cache, inflight, ret, cache_latest, listener>>

\* the listener received a message and awaited _process_websocket_message
WsMessage(mints, msgs) ==
    /\ ret = None
    /\ bm_running
    /\ listener.pc = "recv"
    /\ ws = "open"
    /\ \E mint \in mints, data \in msgs :
          live_tokens' = ProcessWebsocketMessage(live_tokens, mint, data, now)
    /\ UNCHANGED <<now, bm_running, session, token_cache, inflight, ret, cache_latest,
                   ws, listener>>

\* websockets.connect succeeded, self.ws = ws, the subscription was sent; with the
\* flag cleared meanwhile the inner loop is skipped, the connection closed, the task ends
ListenerConnected ==
    /\ ret = None
    /\ listener.pc = "connecting"
    /\ IF bm_running
       THEN ws' = "open" /\ listener' = [listener EXCEPT !.pc = "recv"]
       ELSE ws' = "closed" /\ listener' = [listener EXCEPT !.pc = ListenerLoopTop(bm_running)]
    /\ UNCHANGED <<now, bm_running, session, live_tokens, token_cache, inflight, ret, cache_latest>>

\* websockets.connect raises, or ws.send of the subscription raises (the connection
\* is then closed by the async with): the outer except logs and sleeps 5 s
ListenerConnectFails ==
    /\ ret = None
    /\ listener.pc = "connecting"
    /\ \E step \in {"connect", "subscribe"} :
          ws' = IF step = "subscribe" THEN "closed" ELSE ws
    /\ listener' = ListenerBackoff(now)
    /\ UNCHANGED <<now, bm_running, session, live_tokens, token_cache, inflight, ret, cache_latest>>

\* ws.recv() timed out (the 30 s are not counted): the keep-alive ping is sent; when
\* the send raises, the exception leaves the inner try from inside its handler, the
\* connection is closed and the outer except logs and sleeps 5 s
ListenerPing ==
    /\ ret = None
    /\ listener.pc = "recv"
    /\ ws = "open"
    /\ \E sent \in BOOLEAN :
          IF sent
          THEN IF bm_running
               THEN UNCHANGED <<ws, listener>>
               ELSE ws' = "closed" /\ listener' = [listener EXCEPT !.pc = ListenerLoopTop(bm_running)]
          ELSE ws' = "closed" /\ listener' = ListenerBackoff(now)
    /\ UNCHANGED <<now, bm_running, session, live_tokens, token_cache, inflight, ret, cache_latest>>

\* ws.recv() raises (the connection dropped or was closed by stop()) or json.loads
\* raises: the inner except logs and breaks, the async with closes the connection and
\* the outer loop goes round at once
ListenerRecvError ==
    /\ ret = None
    /\ listener.pc = "recv"
    /\ ws' = "closed"
    /\ listener' = [listener EXCEPT !.pc = ListenerLoopTop(bm_running)]
    /\ UNCHANGED <<now, bm_running, session, live_tokens, token_cache, inflight, ret, cache_latest>>

\* the 5 s of the backoff are over
ListenerBackoffDone ==
    /\ ret = None
    /\ listener.pc = "backoff"
    /\ now >= listener.wake
    /\ listener' = [listener EXCEPT !.pc = ListenerLoopTop(bm_running)]
    /\ UNCHANGED <<now, bm_running, session, live_tokens, token_cache, inflight, ret, cache_latest, ws>>

\* get_curve_progress(tok) up to its return or its suspension in the primary pull
GetCurveProgress(c, tok) ==
    /\ ret = None
    /\ inflight[c] = None
    /\ IF LiveUsable(live_tokens, tok, now)
       THEN /\ ret' = Return(c, tok, LiveSnapshot(live_tokens[tok]), <<"live">>, "not_tried")
            /\ UNCHANGED <<token_cache, inflight>>
       ELSE IF CacheUsable(token_cache, tok, now)
       THEN /\ ret' = Return(c, tok, token_cache[tok].data, <<"live", "cache">>, "not_tried")
            /\ UNCHANGED <<token_cache, inflight>>
       ELSE IF session # "open"
       THEN \* session.get raises before the coroutine suspends
            LET curve_data == GetFromPumpfunApi(session, None, 0) IN
            /\ ret' = Return(c, tok, ResultAfterPull(tok, curve_data),
                             TiersAfterPull(curve_data), "no_session")
            /\ token_cache' = CacheAfterPull(token_cache, tok, curve_data, now)
            /\ UNCHANGED inflight
       ELSE /\ inflight' = [inflight EXCEPT ![c] = [token |-> tok, started |-> now]]
            /\ UNCHANGED <<token_cache, ret>>
    /\ cache_latest' = IF ret' # None THEN Returned(cache_latest, token_cache', ret') ELSE cache_latest
    /\ UNCHANGED <<now, bm_running, session, live_tokens, ws, listener>>

\* how the request of a pull ended, for the history
PullEnd(sess, resp, elapsed) ==
    IF sess # "open" THEN "no_session"
    ELSE IF elapsed >= HTTP_TIMEOUT THEN "timeout"
    ELSE resp.kind

\* the primary pull of caller c ends with resp; get_curve_progress runs to its return
FetchDone(c, resps) ==
    /\ ret = None
    /\ inflight[c] # None
    /\ \E resp \in resps :
          LET tok == inflight[c].token
              elapsed == now - inflight[c].started
              curve_data == GetFromPumpfunApi(session, resp, elapsed)
          IN /\ token_cache' = CacheAfterPull(token_cache, tok, curve_data, now)
             /\ ret' = Return(c, tok, ResultAfterPull(tok, curve_data),
                              TiersAfterPull(curve_data), PullEnd(session, resp, elapsed))
    /\ cache_latest' = Returned(cache_latest, token_cache', ret')
    /\ inflight' = [inflight EXCEPT ![c] = None]
    /\ UNCHANGED <<now, bm_running, session, live_tokens, ws, listener>>

\* time passes while every task is suspended
Tick(times) ==
    /\ ret = None
    /\ \E t \in times : t > now /\ now' = t
    /\ UNCHANGED <<bm_running, session, live_tokens, token_cache, inflight, ret, cache_latest,
                   ws, listener>>

----------------------------------------------------------------------------
(* SignalAggregator (spec.md 4.2; signal_aggregator is not part of src/) *)

\* the payloads of the signals the watchers deliver: the source kind, and for a
\* social call whether the caller counts as a KOL
SignalInputs ==
    { [kind |-> "smart_money", kol |-> FALSE],
      [kind |-> "telegram",    kol |-> FALSE],
      [kind |-> "twitter",     kol |-> TRUE] }

\* add_smart_money_signal / add_telegram_signal / add_twitter_signal
AddSignalEvent(store, tok, sig, t) ==
    [store EXCEPT ![tok] = Append(@, [kind |-> sig.kind, kol |-> sig.kol, at |-> t])]

\* the events of one token that are not older than max_age_seconds
Surviving(evs, max_age_seconds, t) ==
    SelectSeq(evs, LAMBDA e : t - e.at <= max_age_seconds)

OfKind(evs, k) == SelectSeq(evs, LAMBDA e : e.kind = k)

\* the bundle summary of one token
Bundle(evs) ==
    [ smart_money  |-> OfKind(evs, "smart_money"),
      kols         |-> SelectSeq(evs, LAMBDA e : e.kol),
      telegram     |-> OfKind(evs, "telegram"),
      twitter      |-> OfKind(evs, "twitter"),
      signal_count |-> Len(evs) ]

\* the event store after the read-prune of get_hot_tokens
Pruned(store, max_age_seconds, t) ==
    [tok \in Tokens |-> Surviving(store[tok], max_age_seconds, t)]

\* get_hot_tokens(min_signals, max_age_seconds)
GetHotTokens(store, min_signals, max_age_seconds, t) ==
    LET kept == Pruned(store, max_age_seconds, t)
        hot  == {tok \in Tokens : Len(kept[tok]) >= min_signals}
    IN [tok \in hot |-> Bundle(kept[tok])]

TotalEvents(store) ==
    LET RECURSIVE Sum(_)
        Sum(S) == IF S = {} THEN 0
                  ELSE LET x == CHOOSE y \in S : TRUE IN Len(store[x]) + Sum(S \ {x})
    IN Sum(Tokens)

----------------------------------------------------------------------------
(* EarlySignalsMonitor: constants and pure parts *)

SIGNAL_AGGREGATION_WINDOW == 300

MIN_EARLY_CONVICTION == 85

MIN_SIGNALS == 2

LOOP_SLEEP == 30

MAX_CURVE_PCT == 70

\* base score from the curve position
CurveScore(curve_pct) ==
    IF curve_pct < Pct(20) THEN 40
    ELSE IF curve_pct < Pct(40) THEN 30
    ELSE IF curve_pct < Pct(60) THEN 20
    ELSE 10

\* variant: the smart-money tiers add up
SmartMoneyScore_Cumulative(smart_money_count) ==
      (IF smart_money_count >= 3 THEN 50 ELSE 0)
    + (IF smart_money_count >= 2 THEN 40 ELSE 0)
    + (IF smart_money_count >= 1 THEN 30 ELSE 0)

\* variant: the smart-money tiers test for equality
SmartMoneyScore_Exact(smart_money_count) ==
    IF smart_money_count = 3 THEN 50
    ELSE IF smart_money_count = 2 THEN 40
    ELSE IF smart_money_count = 1 THEN 30
    ELSE 0

SmartMoneyScore(smart_money_count) ==
    IF smart_money_count >= 3 THEN 50
    ELSE IF smart_money_count >= 2 THEN 40
    ELSE IF smart_money_count >= 1 THEN 30
    ELSE 0

KolScore(kol_count) ==
    IF kol_count >= 2 THEN 35
    ELSE IF kol_count >= 1 THEN 25
    ELSE 0

SocialScore(social_total) ==
    IF social_total >= 3 THEN 30
    ELSE IF social_total >= 2 THEN 20
    ELSE IF social_total >= 1 THEN 10
    ELSE 0

ConvergenceScore(signal_count) ==
    IF signal_count >= 4 THEN 25
    ELSE IF signal_count >= 3 THEN 15
    ELSE 0

VolumeScore(volume_24h) == IF volume_24h > 10000 THEN 15 ELSE 0

HolderScore(holder_count) ==
    IF holder_count > 100 THEN 10
    ELSE IF holder_count > 50 THEN 5
    ELSE 0

\* _calculate_early_conviction(token_mint, signal_data, curve_data)
CalculateEarlyConviction(signal_data, curve_data) ==
      CurveScore(curve_data.completion_percent)
    + SmartMoneyScore(Len(signal_data.smart_money))
    + KolScore(Len(signal_data.kols))
    + SocialScore(Len(signal_data.telegram) + Len(signal_data.twitter))
    + ConvergenceScore(signal_data.signal_count)
    + VolumeScore(curve_data.volume_24h)
    + HolderScore(curve_data.holder_count)

\* variant: the late-curve test also rejects a token at exactly 70 %
TooLate_Inclusive(curve_pct) == curve_pct >= Pct(MAX_CURVE_PCT)

\* `if curve_pct > 70`
TooLate(curve_pct) == curve_pct > Pct(MAX_CURVE_PCT)

\* variant: a score of exactly 85 does not meet the conviction threshold
MeetsConviction_Strict(early_score) == early_score > MIN_EARLY_CONVICTION

\* `if early_score >= MIN_EARLY_CONVICTION`
MeetsConviction(early_score) == early_score >= MIN_EARLY_CONVICTION

\* how _evaluate_early_token ends for the curve data its lookup returned
EvaluationOutcome(curve_data, signal_data) ==
    IF curve_data = Raise THEN "error"
    ELSE IF curve_data = None THEN "no_curve"
    ELSE IF TooLate(curve_data.completion_percent) THEN "late_curve"
    ELSE IF MeetsConviction(CalculateEarlyConviction(signal_data, curve_data)) THEN "alerted"
    ELSE "low_score"

\* the score _evaluate_early_token computed, None if it computed none
EvaluationScore(curve_data, signal_data) ==
    IF EvaluationOutcome(curve_data, signal_data) \in {"alerted", "low_score"}
    THEN [score |-> CalculateEarlyConviction(signal_data, curve_data)]
    ELSE None

\* variant: an alerted token is not marked processed
MarksProcessed_LateOnly(outcome) == outcome = "late_curve"

\* variant: an evaluation without curve data also marks the token processed
MarksProcessed_AbsentToo(outcome) == outcome \in {"no_curve", "late_curve", "alerted"}

\* the outcomes on which _evaluate_early_token runs processed_tokens.add(token_mint)
MarksProcessed(outcome) == outcome \in {"late_curve", "alerted"}

\* variant: an evaluation never adds the token to processed_tokens
ProcessedAfter_Forgets(pt, tok, outcome) == pt

\* processed_tokens after the evaluation of tok
ProcessedAfter(pt, tok, outcome) ==
    IF MarksProcessed(outcome) THEN pt \cup {tok} ELSE pt

\* variant: the loop never skips a token as processed
AlreadyProcessed_Never(pt, tok) == FALSE

\* `if token_mint in self.processed_tokens: continue`
AlreadyProcessed(pt, tok) == tok \in pt

\* the keyword arguments of the alert callback
AlertCall(tok, early_score, curve_pct, signal_data) ==
    [ token |-> tok, signal_type |-> "ultra_early", early_score |-> early_score,
      curve_completion |-> curve_pct, signal_data |-> signal_data ]

\* variant: the callback is awaited for every scored token
InvokesCallback_AnyScore(outcome, callback) ==
    outcome \in {"alerted", "low_score"} /\ callback = "set"

\* the callback is awaited: `if self.signal_callback:` in the alerted branch
InvokesCallback(outcome, callback) == outcome = "alerted" /\ callback = "set"

\* variant: the loop asks for tokens with at least three signals
HotTokensQuery_MinThree(store, t) ==
    GetHotTokens(store, MIN_SIGNALS + 1, SIGNAL_AGGREGATION_WINDOW, t)

\* variant: the loop asks for the hot tokens of a window twice as long
HotTokensQuery_WideWindow(store, t) ==
    GetHotTokens(store, MIN_SIGNALS, 2 * SIGNAL_AGGREGATION_WINDOW, t)

\* `await self.aggregator.get_hot_tokens(min_signals=2, max_age_seconds=SIGNAL_AGGREGATION_WINDOW)`
HotTokensQuery(store, t) ==
    GetHotTokens(store, MIN_SIGNALS, SIGNAL_AGGREGATION_WINDOW, t)

\* variant: the loop evaluates a token whatever db.has_seen returned
HasSeenGate_Ignored(seen) == TRUE

\* `if await self.db.has_seen(token_mint): continue`: the token goes on to its
\* evaluation iff has_seen returned false
HasSeenGate(seen) == ~seen

\* variant: an exception in the body of the loop ends the loop
LoopExcept_Propagates(lp, t, what) == [lp EXCEPT !.pc = "exit", !.todo = {}, !.fault = what]

\* the except branch of _aggregation_loop: the rest of the pass is dropped, the
\* error is logged and the loop sleeps 30 s; what names the call that raised
LoopExcept(lp, t, what) ==
    [lp EXCEPT !.pc = "sleep", !.todo = {}, !.wake = t + LOOP_SLEEP, !.fault = what]

\* variant: an exception raised in _evaluate_early_token reaches the loop
AfterEvaluation_Propagates(lp, t, raised) ==
    IF raised THEN LoopExcept(lp, t, "evaluate")
    ELSE [lp EXCEPT !.pc = "iter", !.todo = @ \ {lp.cur}, !.cur = "", !.seen = FALSE]

\* the loop after `await self._evaluate_early_token(...)`: the try/except of
\* _evaluate_early_token logs whatever was raised and returns, the for loop goes on
AfterEvaluation(lp, t, raised) ==
    [lp EXCEPT !.pc = "iter", !.todo = @ \ {lp.cur}, !.cur = "", !.seen = FALSE]

EmptyDict == [t \in {} |-> None]

\* no task is between a return and the code that runs on with it
Quiet == ret = None /\ ev = None

Idle(c) == inflight[c] = None

----------------------------------------------------------------------------
(* EarlySignalsMonitor: operations *)

\* set_signal_callback(callback)
SetSignalCallback ==
    /\ Quiet
    /\ signal_callback = "None"
    /\ signal_callback' = "set"
    /\ UNCHANGED <<rvars, running, processed_tokens, events, loop, alert_count, last_eval, ev>>

\* start(): sets the flag, registers the watcher callbacks, runs the loop
Start ==
    /\ Quiet
    /\ ~running
    /\ loop.pc = "init"
    /\ running' = TRUE
    /\ loop' = [loop EXCEPT !.pc = "top"]
    /\ UNCHANGED <<rvars, signal_callback, processed_tokens, events, alert_count, last_eval, ev>>

\* stop(): clears the flag and stops the three watchers
Stop ==
    /\ Quiet
    /\ running
    /\ running' = FALSE
    /\ UNCHANGED <<rvars, signal_callback, processed_tokens, events, loop, alert_count, last_eval, ev>>

\* _on_smart_money_buy / _on_telegram_call / _on_twitter_call
AddSignalsUpTo(sigs, max) ==
    /\ Quiet
    /\ running
    /\ TotalEvents(events) < max
    /\ \E tok \in Tokens, sig \in sigs : events' = AddSignalEvent(events, tok, sig, now)
    /\ UNCHANGED <<rvars, running, signal_callback, processed_tokens, loop, alert_count, last_eval, ev>>

AddSignal(sigs) == AddSignalsUpTo(sigs, MaxSignals)

\* `while self.running` is false: the loop ends
LoopExit ==
    /\ Quiet
    /\ loop.pc = "top"
    /\ ~running
    /\ loop' = [loop EXCEPT !.pc = "exit"]
    /\ UNCHANGED <<rvars, running, signal_callback, processed_tokens, events, alert_count, last_eval, ev>>

\* one pass starts: hot_tokens = await get_hot_tokens(2, 300)
LoopScan ==
    /\ Quiet
    /\ loop.pc = "top"
    /\ running
    /\ LET hot == HotTokensQuery(events, now) IN
          loop' = [loop EXCEPT !.pc = "iter", !.hot = hot, !.todo = DOMAIN hot, !.fault = "none"]
    /\ events' = Pruned(events, SIGNAL_AGGREGATION_WINDOW, now)
    /\ UNCHANGED <<rvars, running, signal_callback, processed_tokens, alert_count, last_eval, ev>>

\* get_hot_tokens raises: the except branch of the loop logs and sleeps 30 s
LoopScanRaises ==
    /\ Quiet
    /\ loop.pc = "top"
    /\ running
    /\ loop' = LoopExcept(loop, now, "get_hot_tokens")
    /\ UNCHANGED <<rvars, running, signal_callback, processed_tokens, events, alert_count, last_eval, ev>>

\* the for loop reaches a token that is in processed_tokens
LoopSkipProcessed ==
    /\ ret = None
    /\ loop.pc = "iter"
    /\ \E tok \in loop.todo :
          /\ AlreadyProcessed(processed_tokens, tok)
          /\ loop' = [loop EXCEPT !.todo = @ \ {tok}]
          /\ ev' = [kind |-> "skip_processed", token |-> tok]
    /\ UNCHANGED <<rvars, running, signal_callback, processed_tokens, events, alert_count, last_eval>>

\* the for loop reaches a token db.has_seen knows
LoopSkipSeen ==
    /\ ret = None
    /\ loop.pc = "iter"
    /\ \E tok \in loop.todo :
          /\ ~AlreadyProcessed(processed_tokens, tok)
          /\ \E seen \in BOOLEAN :
                /\ ~HasSeenGate(seen)
                /\ ev' = [kind |-> "skip_seen", token |-> tok, seen |-> seen]
          /\ loop' = [loop EXCEPT !.todo = @ \ {tok}]
    /\ UNCHANGED <<rvars, running, signal_callback, processed_tokens, events, alert_count, last_eval>>

\* db.has_seen raises: the except branch of the loop logs and sleeps 30 s
LoopHasSeenRaises ==
    /\ ret = None
    /\ loop.pc = "iter"
    /\ \E tok \in loop.todo :
          /\ ~AlreadyProcessed(processed_tokens, tok)
          /\ loop' = LoopExcept(loop, now, "has_seen")
    /\ ev' = None
    /\ UNCHANGED <<rvars, running, signal_callback, processed_tokens, events, alert_count, last_eval>>

\* the for loop reaches a token to evaluate: _evaluate_early_token up to the return
\* of get_curve_progress or its suspension in the primary pull
LoopEvaluate ==
    /\ loop.pc = "iter"
    /\ \E tok \in loop.todo :
          /\ ~AlreadyProcessed(processed_tokens, tok)
          /\ GetCurveProgress(Coord, tok)
          /\ \E seen \in BOOLEAN :
                /\ HasSeenGate(seen)
                /\ loop' = [loop EXCEPT !.pc = "eval", !.cur = tok, !.seen = seen]
    /\ ev' = None
    /\ UNCHANGED <<running, signal_callback, processed_tokens, events, alert_count, last_eval>>

\* _evaluate_early_token from the return of get_curve_progress to its end
EvalResume ==
    /\ loop.pc = "eval"
    /\ ret # None
    /\ ret.caller = Coord
    /\ LET tok         == loop.cur
           curve_data  == ret.result
           signal_data == loop.hot[tok]
           outcome     == EvaluationOutcome(curve_data, signal_data)
           score       == EvaluationScore(curve_data, signal_data)
           called      == InvokesCallback(outcome, signal_callback)
       IN /\ processed_tokens' = ProcessedAfter(processed_tokens, tok, outcome)
          /\ alert_count' = IF called THEN [alert_count EXCEPT ![tok] = @ + 1] ELSE alert_count
          /\ last_eval' = [last_eval EXCEPT ![tok] =
                  [outcome |-> outcome, signal_data |-> signal_data, curve |-> curve_data]]
          /\ \E cb \in {"returned", "raised"} :
                /\ ev' = [ kind |-> "evaluated", token |-> tok, previous |-> last_eval[tok],
                           curve |-> curve_data,
                           signal_data |-> signal_data, outcome |-> outcome, score |-> score,
                           alert |-> IF called
                                     THEN AlertCall(tok, score.score, curve_data.completion_percent,
                                                    signal_data)
                                     ELSE None,
                           callback |-> IF called THEN cb ELSE "not_called" ]
                /\ loop' = AfterEvaluation(loop, now, called /\ cb = "raised")
    /\ ret' = None
    /\ UNCHANGED <<now, bm_running, session, live_tokens, token_cache, inflight, cache_latest,
                   ws, listener, running, signal_callback, events>>

\* _evaluate_early_token from the return of get_curve_progress, when the scoring
\* raises (a bundle without the keys it indexes): the except logs, nothing is marked
EvalScoringRaises ==
    /\ loop.pc = "eval"
    /\ ret # None
    /\ ret.caller = Coord
    /\ ret.result # None
    /\ ~TooLate(ret.result.completion_percent)
    /\ last_eval' = [last_eval EXCEPT ![loop.cur] =
            [outcome |-> "error", signal_data |-> loop.hot[loop.cur], curve |-> ret.result]]
    /\ ev' = [ kind |-> "evaluated", token |-> loop.cur, previous |-> last_eval[loop.cur],
               curve |-> ret.result, signal_data |-> loop.hot[loop.cur], outcome |-> "error",
               score |-> None, alert |-> None, callback |-> "not_called" ]
    /\ ret' = None
    /\ loop' = AfterEvaluation(loop, now, TRUE)
    /\ UNCHANGED <<now, bm_running, session, live_tokens, token_cache, inflight, cache_latest,
                   ws, listener, running, signal_callback, processed_tokens, events, alert_count>>

\* the for loop is through: await asyncio.sleep(30)
LoopPassDone ==
    /\ ret = None
    /\ loop.pc = "iter"
    /\ loop.todo = {}
    /\ loop' = [loop EXCEPT !.pc = "sleep", !.wake = now + LOOP_SLEEP]
    /\ ev' = None
    /\ UNCHANGED <<rvars, running, signal_callback, processed_tokens, events, alert_count, last_eval>>

\* the sleep is over
LoopWake ==
    /\ Quiet
    /\ loop.pc = "sleep"
    /\ now >= loop.wake
    /\ loop' = [loop EXCEPT !.pc = "top"]
    /\ UNCHANGED <<rvars, running, signal_callback, processed_tokens, events, alert_count, last_eval, ev>>

----------------------------------------------------------------------------
(* The coordinator with its aggregator and its resolver *)

\* feed messages and API answers the coordinator specification draws from: one
\* token trades, late on its curve
CoordMints == {"t1"}

CoordFeed ==
    { [txType |-> "sell", marketCapSol |-> 242, vSolInBondingCurve |-> 70] }   \* 48400 USD, 70.14 %

CoordApi ==
    { [kind |-> "ok",      usd_market_cap |-> 13110, reply_count |-> 0],       \* 19 %
      [kind |-> "ok",      usd_market_cap |-> 48300, reply_count |-> 120],     \* exactly 70 %
      [kind |-> "timeout", usd_market_cap |-> 0,     reply_count |-> 0] }

\* the signals the watchers deliver in the coordinator specification
CoordSignals ==
    { [kind |-> "smart_money", kol |-> FALSE],
      [kind |-> "telegram",    kol |-> TRUE] }

CoordTimes == {k * LOOP_SLEEP : k \in 0..MaxPasses}

InitCoordinatorVars ==
    /\ running = FALSE
    /\ signal_callback = "None"
    /\ processed_tokens = {}
    /\ events = [t \in Tokens |-> <<>>]
    /\ loop = [pc |-> "init", hot |-> EmptyDict, todo |-> {}, cur |-> "", wake |-> 0,
               seen |-> FALSE, fault |-> "none"]
    /\ alert_count = [t \in Tokens |-> 0]
    /\ last_eval = [t \in Tokens |-> None]
    /\ ev = None

InitResolverVars ==
    /\ now = 0
    /\ bm_running = FALSE
    /\ session = "None"
    /\ live_tokens = [t \in Tokens |-> None]
    /\ token_cache = [t \in Tokens |-> None]
    /\ inflight = [c \in Callers |-> None]
    /\ ret = None
    /\ cache_latest = [t \in Tokens |-> FALSE]
    /\ ws = "None"
    /\ listener = [pc |-> "none", wake |-> 0]

Init == InitResolverVars /\ InitCoordinatorVars

CoordBondingStart == ev = None /\ BondingStart /\ UNCHANGED cvars

CoordListenerConnected == ev = None /\ ListenerConnected /\ UNCHANGED cvars

CoordWsMessage == ev = None /\ WsMessage(CoordMints, CoordFeed) /\ UNCHANGED cvars

CoordFetchDone == ev = None /\ FetchDone(Coord, CoordApi) /\ UNCHANGED cvars

CoordTick == ev = None /\ Tick(CoordTimes) /\ UNCHANGED cvars

Next ==
    \/ SetSignalCallback
    \/ Start
    \/ Stop
    \/ AddSignal(CoordSignals)
    \/ CoordBondingStart
    \/ CoordListenerConnected
    \/ CoordWsMessage
    \/ CoordTick
    \/ LoopExit
    \/ LoopScan
    \/ LoopScanRaises
    \/ LoopSkipProcessed
    \/ LoopSkipSeen
    \/ LoopHasSeenRaises
    \/ LoopEvaluate
    \/ CoordFetchDone
    \/ EvalResume
    \/ LoopPassDone
    \/ LoopWake

Spec == Init /\ [][Next]_vars

----------------------------------------------------------------------------
(* The resolver under calls from a cooperative task *)

InitResolver == InitResolverVars /\ InitCoordinatorVars

ExtBondingStart == BondingStart /\ UNCHANGED cvars

ExtBondingStop == BondingStop /\ UNCHANGED cvars

ExtListenerConnected == ListenerConnected /\ UNCHANGED cvars

ExtWsMessage == WsMessage(FeedMints, FeedMessages) /\ UNCHANGED cvars

ExtCall == \E c \in ExtCallers, tok \in Tokens : GetCurveProgress(c, tok) /\ UNCHANGED cvars

ExtFetchDone == \E c \in ExtCallers : FetchDone(c, ApiResponses) /\ UNCHANGED cvars

\* the calling task resumes with the result (no suspension point lies between)
ExtResume ==
    /\ ret # None
    /\ ret.caller \in ExtCallers
    /\ ret' = None
    /\ UNCHANGED <<now, bm_running, session, live_tokens, token_cache, inflight, cache_latest,
                   ws, listener>>
    /\ UNCHANGED cvars

ExtTick == Tick(Times) /\ UNCHANGED cvars

NextResolver ==
    \/ ExtBondingStart
    \/ ExtBondingStop
    \/ ExtListenerConnected
    \/ ExtWsMessage
    \/ ExtCall
    \/ ExtFetchDone
    \/ ExtResume
    \/ ExtTick

SpecResolver == InitResolver /\ [][NextResolver]_vars

----------------------------------------------------------------------------
(* The live feed: the listener task, the monitor's and the coordinator's start and stop *)

\* the clock of the feed specification advances in steps of the backoff delay
MaxFeedTicks == 3

FeedTimes == {k * RECONNECT_DELAY : k \in 0..MaxFeedTicks}

FeedBondingStart == BondingStart /\ UNCHANGED cvars

FeedBondingStop == BondingStop /\ UNCHANGED cvars

FeedListenerConnected == ListenerConnected /\ UNCHANGED cvars

FeedListenerConnectFails == ListenerConnectFails /\ UNCHANGED cvars

FeedWsMessage == WsMessage(FeedMints, FeedMessages) /\ UNCHANGED cvars

FeedListenerPing == ListenerPing /\ UNCHANGED cvars

FeedListenerRecvError == ListenerRecvError /\ UNCHANGED cvars

FeedListenerBackoffDone == ListenerBackoffDone /\ UNCHANGED cvars

FeedTick == Tick(FeedTimes) /\ UNCHANGED cvars

NextFeed ==
    \/ FeedBondingStart
    \/ FeedBondingStop
    \/ Start
    \/ Stop
    \/ FeedListenerConnected
    \/ FeedListenerConnectFails
    \/ FeedWsMessage
    \/ FeedListenerPing
    \/ FeedListenerRecvError
    \/ FeedListenerBackoffDone
    \/ FeedTick

SpecFeed == Init /\ [][NextFeed]_vars

----------------------------------------------------------------------------
(* The range scan over the live tier, next to the feed and to resolver calls *)

MaxScanTicks == 2

ScanTimes == {k * 15 : k \in 0..MaxScanTicks}

\* trades at 9.86 %, at exactly 20 % and above graduation
ScanFeed ==
    { [txType |-> "buy",  marketCapSol |-> 34,  vSolInBondingCurve |-> 30],
      [txType |-> "buy",  marketCapSol |-> 69,  vSolInBondingCurve |-> 40],
      [txType |-> "sell", marketCapSol |-> 500, vSolInBondingCurve |-> 85] }

\* a pull that answers 50 %
ScanApi == { [kind |-> "ok", usd_market_cap |-> 34500, reply_count |-> 0] }

\* the arguments of the scan: the defaults, and two ranges with the bounds on values
\* the feed produces
ScanRanges ==
    { [min_pct |-> Pct(0),  max_pct |-> Pct(70),  max_age |-> 300],
      [min_pct |-> Pct(20), max_pct |-> Pct(100), max_age |-> 15],
      [min_pct |-> Pct(0),  max_pct |-> Pct(20),  max_age |-> 0] }

\* a task calls get_cached_tokens_by_curve_range: synchronous, it returns at once
RangeScan ==
    /\ Quiet
    /\ \E a \in ScanRanges :
          ev' = [ kind |-> "range_scan", min_pct |-> a.min_pct, max_pct |-> a.max_pct,
                  max_age |-> a.max_age,
                  result |-> GetCachedTokensByCurveRange(live_tokens, a.min_pct, a.max_pct,
                                                         a.max_age, now) ]
    /\ UNCHANGED <<rvars, running, signal_callback, processed_tokens, events, loop,
                   alert_count, last_eval>>

\* the calling task goes on with the result
RangeScanDone ==
    /\ ev # None
    /\ ev.kind = "range_scan"
    /\ ev' = None
    /\ UNCHANGED <<rvars, running, signal_callback, processed_tokens, events, loop,
                   alert_count, last_eval>>

ScanBondingStart == ev = None /\ BondingStart /\ UNCHANGED cvars

ScanListenerConnected == ev = None /\ ListenerConnected /\ UNCHANGED cvars

ScanWsMessage == ev = None /\ WsMessage(Tokens, ScanFeed) /\ UNCHANGED cvars

ScanCall ==
    ev = None /\ \E c \in ExtCallers, tok \in Tokens : GetCurveProgress(c, tok) /\ UNCHANGED cvars

ScanFetchDone == ev = None /\ \E c \in ExtCallers : FetchDone(c, ScanApi) /\ UNCHANGED cvars

ScanResume == ev = None /\ ExtResume

ScanTick == ev = None /\ Tick(ScanTimes) /\ UNCHANGED cvars

NextScan ==
    \/ ScanBondingStart
    \/ ScanListenerConnected
    \/ ScanWsMessage
    \/ ScanCall
    \/ ScanFetchDone
    \/ ScanResume
    \/ ScanTick
    \/ RangeScan
    \/ RangeScanDone

SpecScan == Init /\ [][NextScan]_vars

----------------------------------------------------------------------------
(* The aggregator and the loop over a clock that passes the 300 s window *)

\* the clock advances in steps of half the aggregation window
MaxAggTicks == 3

AggTimes == {k * 150 : k \in 0..MaxAggTicks}

\* the arguments of the queries other tasks make
AggQueries ==
    { [min_signals |-> 1, max_age_seconds |-> 150],
      [min_signals |-> 2, max_age_seconds |-> 300] }

\* a task other than the loop calls get_hot_tokens(min_signals, max_age_seconds)
HotQuery ==
    /\ Quiet
    /\ \E q \in AggQueries :
          /\ ev' = [ kind |-> "hot_query", min_signals |-> q.min_signals,
                     max_age_seconds |-> q.max_age_seconds,
                     result |-> GetHotTokens(events, q.min_signals, q.max_age_seconds, now) ]
          /\ events' = Pruned(events, q.max_age_seconds, now)
    /\ UNCHANGED <<rvars, running, signal_callback, processed_tokens, loop, alert_count, last_eval>>

\* the calling task goes on with the result
HotQueryDone ==
    /\ ev # None
    /\ ev.kind = "hot_query"
    /\ ev' = None
    /\ UNCHANGED <<rvars, running, signal_callback, processed_tokens, events, loop,
                   alert_count, last_eval>>

AggTick == ev = None /\ Tick(AggTimes) /\ UNCHANGED cvars

\* the signals arrive until one aggregation window has passed
AggAddSignal == now <= SIGNAL_AGGREGATION_WINDOW /\ AddSignal(CoordSignals)

NextAggregator ==
    \/ Start
    \/ AggAddSignal
    \/ AggTick
    \/ HotQuery
    \/ HotQueryDone
    \/ LoopScan
    \/ LoopSkipSeen
    \/ LoopEvaluate
    \/ EvalResume
    \/ LoopPassDone
    \/ LoopWake

SpecAggregator == Init /\ [][NextAggregator]_vars

----------------------------------------------------------------------------
(* Both loops under start and stop, with the progress the event loop gives them *)

\* passes and backoffs begin only until the clock has passed this many loop sleeps
MaxStopPasses == 1

StopHorizon == MaxStopPasses * LOOP_SLEEP

\* the deadlines of the sleeps that are pending
PendingWakes ==
    (IF loop.pc = "sleep" THEN {loop.wake} ELSE {}) \cup
    (IF listener.pc = "backoff" THEN {listener.wake} ELSE {})

StopBondingStop == ev = None /\ BondingStop /\ UNCHANGED cvars

StopListenerConnected == ListenerConnected /\ UNCHANGED cvars

StopListenerConnectFails == now <= StopHorizon /\ ListenerConnectFails /\ UNCHANGED cvars

StopListenerPing == now <= StopHorizon /\ ListenerPing /\ UNCHANGED cvars

StopListenerRecvError == ListenerRecvError /\ UNCHANGED cvars

\* ws.recv() on the connection stop() closed raises
StopListenerRecvClosed == ws = "closed" /\ StopListenerRecvError

StopListenerBackoffDone == ListenerBackoffDone /\ UNCHANGED cvars

StopFetchDone == FetchDone(Coord, CoordApi) /\ UNCHANGED cvars

\* the clock reaches the next pending deadline
StopTick == Tick(PendingWakes) /\ UNCHANGED cvars

StopLoopScan == now <= StopHorizon /\ LoopScan

\* the signals arrive before the first sleep of the loop is over
StopSignals == { [kind |-> "smart_money", kol |-> FALSE] }

StopAddSignal == now = 0 /\ AddSignal(StopSignals)

\* the steps of the aggregation loop task
LoopStep ==
    \/ LoopExit
    \/ StopLoopScan
    \/ LoopSkipProcessed
    \/ LoopSkipSeen
    \/ LoopEvaluate
    \/ EvalResume
    \/ LoopPassDone
    \/ LoopWake

\* the steps of the listener task that need no event from outside
ListenerStep ==
    \/ StopListenerConnected
    \/ StopListenerRecvClosed
    \/ StopListenerBackoffDone

NextStop ==
    \/ Start
    \/ Stop
    \/ StopAddSignal
    \/ CoordBondingStart
    \/ StopBondingStop
    \/ StopListenerConnectFails
    \/ CoordWsMessage
    \/ StopListenerPing
    \/ StopListenerRecvError
    \/ ListenerStep
    \/ StopFetchDone
    \/ StopTick
    \/ LoopStep

\* the event loop runs every task that can run, time passes, and external calls return
SpecStop ==
    /\ Init
    /\ [][NextStop]_vars
    /\ WF_vars(LoopStep)
    /\ WF_vars(ListenerStep)
    /\ WF_vars(StopFetchDone)
    /\ WF_vars(StopTick)

----------------------------------------------------------------------------
(* Two cooperative tasks calling the resolver: the evaluation and another caller *)

\* a task calls get_curve_progress(tok)
TaskCall == \E c \in Callers, tok \in Tokens : GetCurveProgress(c, tok) /\ UNCHANGED cvars

\* the pull of a suspended task ends
TaskFetchDone == \E c \in Callers : FetchDone(c, CoordApi) /\ UNCHANGED cvars

\* the calling task goes on with the result
TaskResume ==
    /\ ret # None
    /\ ret' = None
    /\ UNCHANGED <<now, bm_running, session, live_tokens, token_cache, inflight, cache_latest,
                   ws, listener>>
    /\ UNCHANGED cvars

NextTasks ==
    \/ ExtBondingStart
    \/ ExtBondingStop
    \/ TaskCall
    \/ TaskFetchDone
    \/ TaskResume
    \/ ExtTick

SpecTasks == Init /\ [][NextTasks]_vars

----------------------------------------------------------------------------
(* One pass over several hot tokens *)

\* the store holds up to this many events, enough for two hot tokens
MaxPassSignals == 4

\* the signals of the pass specification: calls by a KOL
PassSignals == { [kind |-> "telegram", kol |-> TRUE] }

PassApi ==
    { [kind |-> "ok",      usd_market_cap |-> 13110, reply_count |-> 0],       \* 19 %
      [kind |-> "timeout", usd_market_cap |-> 0,     reply_count |-> 0] }

PassAddSignal == now = 0 /\ AddSignalsUpTo(PassSignals, MaxPassSignals)

PassFetchDone == FetchDone(Coord, PassApi) /\ UNCHANGED cvars

NextPass ==
    \/ SetSignalCallback
    \/ Start
    \/ PassAddSignal
    \/ CoordBondingStart
    \/ CoordTick
    \/ LoopScan
    \/ LoopSkipProcessed
    \/ LoopSkipSeen
    \/ LoopHasSeenRaises
    \/ LoopEvaluate
    \/ PassFetchDone
    \/ EvalResume
    \/ EvalScoringRaises
    \/ LoopPassDone
    \/ LoopWake

SpecPass == Init /\ [][NextPass]_vars

----------------------------------------------------------------------------
(* The scorer on its own: _calculate_early_conviction over bounded inputs *)

\* the longest smart_money, kols, telegram / twitter lists and the largest
\* signal_count of a bundle
MaxSmartMoney == 5

MaxKols == 2

MaxCalls == 2

MaxCount == 4

\* n events of one kind, as a list of a bundle
EventList(n, k) == [i \in 1..n |-> [kind |-> k, kol |-> FALSE, at |-> 0]]

\* the bundles the scorer is called with
ScorerBundles ==
    { [ smart_money  |-> EventList(sm, "smart_money"),
        kols         |-> EventList(kl, "telegram"),
        telegram     |-> EventList(tg, "telegram"),
        twitter      |-> EventList(tw, "twitter"),
        signal_count |-> n ] :
      sm \in 0..MaxSmartMoney, kl \in 0..MaxKols, tg \in 0..MaxCalls, tw \in 0..MaxCalls,
      n \in 0..MaxCount }

\* the snapshots the scorer is called with: market caps on and next to the tier edges
\* of the curve (19.9, 20, 39.9, 40, 60 and 70 %), volumes and holder counts on and
\* next to theirs
ScorerSnapshots ==
    { [ completion_percent |-> CurveCompletion(mc),
        market_cap_usd     |-> mc,
        sol_raised         |-> mc,
        holder_count       |-> h,
        volume_24h         |-> v,
        source             |-> "pumpfun_api" ] :
      mc \in {13731, 13800, 27531, 27600, 41400, 48300}, h \in {50, 51, 100, 101},
      v \in {10000, 10001} }

InitScorer ==
    /\ InitResolverVars
    /\ running = FALSE
    /\ signal_callback = "None"
    /\ processed_tokens = {}
    /\ events = [t \in Tokens |-> <<>>]
    /\ loop = [pc |-> "init", hot |-> EmptyDict, todo |-> {}, cur |-> "", wake |-> 0,
               seen |-> FALSE, fault |-> "none"]
    /\ alert_count = [t \in Tokens |-> 0]
    /\ last_eval = [t \in Tokens |-> None]
    /\ \E b \in ScorerBundles, c \in ScorerSnapshots :
          ev = [kind |-> "score_input", signal_data |-> b, curve_data |-> c]

\* early_score = await self._calculate_early_conviction(token_mint, signal_data, curve_data)
ScoreCall ==
    /\ ev.kind = "score_input"
    /\ ev' = [ kind |-> "scored", signal_data |-> ev.signal_data, curve_data |-> ev.curve_data,
               score |-> CalculateEarlyConviction(ev.signal_data, ev.curve_data) ]
    /\ UNCHANGED <<rvars, running, signal_callback, processed_tokens, events, loop,
                   alert_count, last_eval>>

\* the scorer is called again with more smart-money events and everything else as before
ScoreMoreSmartMoney ==
    /\ ev.kind = "scored"
    /\ \E more \in 1..MaxSmartMoney :
          /\ Len(ev.signal_data.smart_money) + more <= MaxSmartMoney
          /\ LET bundle == [ev.signal_data EXCEPT !.smart_money =
                               EventList(Len(@) + more, "smart_money")]
             IN ev' = [ kind |-> "rescored", signal_data |-> bundle,
                        curve_data |-> ev.curve_data,
                        score |-> CalculateEarlyConviction(bundle, ev.curve_data),
                        before |-> ev ]
    /\ UNCHANGED <<rvars, running, signal_callback, processed_tokens, events, loop,
                   alert_count, last_eval>>

NextScorer ==
    \/ ScoreCall
    \/ ScoreMoreSmartMoney

SpecScorer == InitScorer /\ [][NextScorer]_vars

----------------------------------------------------------------------------
(* Claims about the resolver, checked under SpecResolver *)

\* caller c starts get_curve_progress(tok) in this step
CallStarts(c, tok) ==
    /\ ret = None
    /\ inflight[c] = None
    /\ \/ ret' # None /\ ret'.caller = c /\ ret'.token = tok
       \/ inflight'[c] # None /\ inflight'[c].token = tok

\* get_curve_progress returns in this step
Returns == ret = None /\ ret' # None

\* the live entry of tok exists and is younger than 60 s
FreshLive(tok) ==
    /\ live_tokens[tok] # None
    /\ now - live_tokens[tok].last_updated < LIVE_MAX_AGE

\* the cache entry of tok exists and is younger than the TTL
FreshCache(tok) ==
    /\ token_cache[tok] # None
    /\ now - token_cache[tok].timestamp < cache_ttl

\* the snapshot the live tier owes for a live entry
ExpectedLive(e) ==
    [ completion_percent |-> IF e.market_cap_usd * 100 <= Pct(100)
                             THEN e.market_cap_usd * 100 ELSE Pct(100),
      market_cap_usd     |-> e.market_cap_usd,
      sol_raised         |-> e.sol_amount,
      holder_count       |-> 0,
      volume_24h         |-> 0,
      source             |-> "websocket_live" ]

IsSnapshot(r) == r # None /\ r # Raise

\* C1: a call for a token with a live entry younger than 60 s returns at once the
\* snapshot of that entry, tagged websocket_live, without consulting or writing
\* token_cache and without a primary or fallback fetch; and a websocket_live
\* result never comes from an entry of age >= 60 s.
C1_LiveTierFirst ==
    [][ /\ \A c \in Callers, tok \in Tokens :
              (CallStarts(c, tok) /\ FreshLive(tok)) =>
                  /\ ret' # None
                  /\ ret'.result = ExpectedLive(live_tokens[tok])
                  /\ ret'.tiers = <<"live">>
                  /\ ret'.pull = "not_tried"
                  /\ token_cache' = token_cache
                  /\ inflight' = inflight
        /\ (Returns /\ IsSnapshot(ret'.result) /\ ret'.result.source = "websocket_live") =>
              /\ CallStarts(ret'.caller, ret'.token)
              /\ FreshLive(ret'.token)
      ]_vars

\* C1 witness: a live result was returned although the cache held a fresh entry
C1_Witness ==
    /\ ret # None
    /\ ret.tiers = <<"live">>
    /\ ret.result.source = "websocket_live"
    /\ FreshCache(ret.token)
    /\ now - live_tokens[ret.token].last_updated > 0

\* C2: every snapshot get_curve_progress returns has completion_percent in [0, 100].
C2_CompletionClamped ==
    (ret # None /\ IsSnapshot(ret.result)) =>
        /\ ret.result.completion_percent >= Pct(0)
        /\ ret.result.completion_percent <= Pct(100)

\* C3: get_curve_progress never raises: it returns a snapshot or None, also with no
\* session; a failed primary pull goes on to the fallback tier, which returns None.
C3_NeverRaises ==
    ret # None =>
        /\ ret.result # Raise
        /\ ret.pull \in {"no_session", "timeout", "status", "empty", "malformed"} =>
              /\ ret.tiers = <<"live", "cache", "primary", "fallback">>
              /\ ret.result = None

\* C3 witness: a call made before start(), with no session, returned not-found
C3_Witness ==
    /\ ret # None
    /\ session = "None"
    /\ ~bm_running
    /\ ret.pull = "no_session"
    /\ ret.result = None

\* C4: the tiers run in the order live, cache, primary, fallback; the primary pull
\* is made only with no fresh live entry and no fresh cache entry, the fallback only
\* after a failed pull; a successful pull is cached with the current time and
\* returned, a failed one leaves token_cache unchanged.
C4_TierOrder ==
    [][ /\ \A c \in Callers, tok \in Tokens :
              CallStarts(c, tok) =>
                  /\ (inflight'[c] # None \/ ret'.pull # "not_tried") =>
                        (~FreshLive(tok) /\ ~FreshCache(tok))
                  /\ (ret' # None /\ ret'.tiers = <<"live", "cache">>) =>
                        (~FreshLive(tok) /\ FreshCache(tok))
        /\ Returns =>
              /\ ret'.tiers \in { <<"live">>, <<"live", "cache">>,
                                  <<"live", "cache", "primary">>,
                                  <<"live", "cache", "primary", "fallback">> }
              /\ ret'.pull = "ok" =>
                    /\ ret'.tiers = <<"live", "cache", "primary">>
                    /\ IsSnapshot(ret'.result)
                    /\ token_cache' = [token_cache EXCEPT ![ret'.token] =
                                          [data |-> ret'.result, timestamp |-> now]]
              /\ ret'.pull \notin {"ok", "not_tried"} =>
                    /\ ret'.tiers = <<"live", "cache", "primary", "fallback">>
                    /\ token_cache' = token_cache
              /\ ret'.pull = "not_tried" => token_cache' = token_cache
      ]_vars

\* C4 witness: a successful pull was cached over an older entry and returned
C4_Witness ==
    /\ ret # None
    /\ ret.pull = "ok"
    /\ now > 0
    /\ token_cache[ret.token] = [data |-> ret.result, timestamp |-> now]
    /\ live_tokens[ret.token] # None

\* C5: a result served from the cache tier is the most recent snapshot the resolver
\* returned for the token, and its cache entry is younger than the 30 s TTL.
C5_CacheServesLatest ==
    [][ (Returns /\ ret'.tiers = <<"live", "cache">>) =>
            /\ token_cache[ret'.token] # None
            /\ ret'.result = token_cache[ret'.token].data
            /\ now - token_cache[ret'.token].timestamp < cache_ttl
            /\ cache_latest[ret'.token]
      ]_vars

\* C5 witness: the cache served a snapshot cached 15 s earlier
C5_Witness ==
    /\ ret # None
    /\ ret.tiers = <<"live", "cache">>
    /\ now - token_cache[ret.token].timestamp > 0
    /\ cache_latest[ret.token]

----------------------------------------------------------------------------
(* Claims about the coordinator, checked under Spec *)

\* the loop has just run an evaluation to its end
Evaluated == ev # None /\ ev.kind = "evaluated"

\* the evaluation that just ended had curve data
EvaluatedWithCurve == Evaluated /\ IsSnapshot(ev.curve)

\* C6: an evaluation whose curve lookup gives completion_percent > 70 adds the token
\* to processed_tokens, computes no score and invokes no callback, whatever the
\* signals; at exactly 70 the token is not rejected and a score is computed.
C6_LateCurveRejected ==
    EvaluatedWithCurve =>
        /\ ev.curve.completion_percent > Pct(70) =>
              /\ ev.outcome = "late_curve"
              /\ ev.token \in processed_tokens
              /\ ev.score = None
              /\ ev.alert = None
              /\ ev.callback = "not_called"
        /\ ev.curve.completion_percent <= Pct(70) =>
              /\ ev.outcome \in {"alerted", "low_score"}
              /\ ev.score # None

\* C6 witness: a token at 70.14 % with a smart-money buy and a KOL call was rejected
\* while a callback was registered
C6_Witness ==
    /\ EvaluatedWithCurve
    /\ ev.curve.completion_percent > Pct(70)
    /\ ev.curve.completion_percent < Pct(71)
    /\ Len(ev.signal_data.smart_money) >= 1
    /\ Len(ev.signal_data.kols) >= 1
    /\ signal_callback = "set"
    /\ ev.token \in processed_tokens

\* C7: an evaluation whose curve lookup returns None does not add the token to
\* processed_tokens; the token stays out of it until its next evaluation, so a later
\* pass does not skip it as processed and, when the for loop is at that token, its
\* evaluation can start; and an evaluation that gets curve data ends in a score or in
\* the late-curve rejection.
C7_AbsentCurveRetried ==
    /\ \A t \in Tokens :
          ( /\ loop.pc = "iter"
            /\ loop.todo = {t}
            /\ last_eval[t] # None
            /\ last_eval[t].outcome = "no_curve" ) => ENABLED LoopEvaluate
    /\ \A t \in Tokens :
          (last_eval[t] # None /\ last_eval[t].outcome = "no_curve") =>
              t \notin processed_tokens
    /\ (ev # None /\ ev.kind = "skip_processed") =>
          (last_eval[ev.token] # None /\ last_eval[ev.token].outcome # "no_curve")
    /\ (Evaluated /\ ev.curve = None) =>
          /\ ev.outcome = "no_curve"
          /\ ev.score = None
          /\ ev.alert = None
    /\ EvaluatedWithCurve => ev.outcome \in {"late_curve", "alerted", "low_score"}

\* C7 witness: a token whose previous evaluation found no curve data was evaluated
\* again on a later pass and alerted
C7_Witness ==
    /\ Evaluated
    /\ ev.previous # None
    /\ ev.previous.outcome = "no_curve"
    /\ ev.outcome = "alerted"
    /\ now >= LOOP_SLEEP

C9_ProcessedIsTerminal ==
    [][ /\ processed_tokens \subseteq processed_tokens'
        /\ \A t \in processed_tokens :
              /\ ~(loop'.pc = "eval" /\ loop'.cur = t)
              /\ inflight'[Coord] # None => inflight'[Coord].token # t
              /\ (ret' # None /\ ret'.caller = Coord) => ret'.token # t
              /\ (ev' # None /\ ev'.kind = "evaluated") => ev'.token # t
              /\ alert_count'[t] = alert_count[t]
              /\ last_eval'[t] = last_eval[t]
      ]_vars

\* C9 witness: a processed token was hot again on a later pass and was skipped
C9_Witness ==
    /\ ev # None
    /\ ev.kind = "skip_processed"
    /\ ev.token \in processed_tokens
    /\ now >= LOOP_SLEEP
    /\ alert_count[ev.token] = 1

\* C10: once a token was alerted or scored below the threshold, an evaluation loop
\* run with the same signal bundle and the same curve snapshot does not invoke the
\* alert callback for it: an alert is never sent for an alerted token, and after a low
\* score only when the bundle or the snapshot has changed.
C10_Idempotent ==
    /\ (Evaluated /\ ev.alert # None /\ ev.previous # None) =>
          /\ ev.previous.outcome # "alerted"
          /\ ev.previous.outcome = "low_score" =>
                (ev.previous.signal_data # ev.signal_data \/ ev.previous.curve # ev.curve)
    /\ \A t \in Tokens : alert_count[t] <= 1

\* C10 witness: a token scored low, and on a later pass was evaluated again with the
\* same bundle and the same snapshot, again without an alert
C10_Witness ==
    /\ Evaluated
    /\ ev.previous # None
    /\ ev.previous.outcome = "low_score"
    /\ ev.previous.signal_data = ev.signal_data
    /\ ev.previous.curve = ev.curve
    /\ ev.alert = None
    /\ signal_callback = "set"
    /\ now >= LOOP_SLEEP

\* C11: with a callback registered, an evaluation invokes it if and only if the
\* curve lookup gave a snapshot with completion_percent <= 70 and the score is >= 85;
\* the invocation carries the token, signal_type "ultra_early", that score, that
\* completion percent and the bundle the score was computed from.
C11_AlertIffConviction ==
    (Evaluated /\ signal_callback = "set") =>
        /\ (ev.callback # "not_called") <=>
              /\ IsSnapshot(ev.curve)
              /\ ev.curve.completion_percent <= Pct(70)
              /\ ev.score # None
              /\ ev.score.score >= MIN_EARLY_CONVICTION
        /\ (ev.callback # "not_called") =>
              ev.alert = [ token            |-> ev.token,
                           signal_type      |-> "ultra_early",
                           early_score      |-> ev.score.score,
                           curve_completion |-> ev.curve.completion_percent,
                           signal_data      |-> loop.hot[ev.token] ]
        /\ (ev.callback = "not_called") => ev.alert = None

\* C11 witness: a token at exactly 70 % scored exactly 85 and the callback was invoked
C11_Witness ==
    /\ Evaluated
    /\ signal_callback = "set"
    /\ ev.callback = "returned"
    /\ ev.curve.completion_percent = Pct(70)
    /\ ev.alert.early_score = MIN_EARLY_CONVICTION
    /\ ev.alert.signal_data.signal_count = 2

\* C12: no exception of a pass ends the loop.  The loop leaves only through its
\* `while self.running` test with the flag cleared; a pass in which get_hot_tokens
\* or has_seen raised goes to the 30 s sleep, as a pass that ran through does; an
\* evaluation whose callback raised lets the for loop go on; the sleep lasts 30 s
\* and then the loop can take its next iteration.
C12_LoopFaultTolerant ==
    [][ /\ (loop.pc # "exit" /\ loop'.pc = "exit") => (loop.pc = "top" /\ ~running)
        /\ (loop.pc \in {"top", "iter"} /\ loop'.pc \notin {"top", "iter", "eval", "exit"}) =>
              (loop'.pc = "sleep" /\ loop'.wake = now + LOOP_SLEEP)
        /\ (loop.pc = "eval" /\ loop'.pc # "eval") => loop'.pc = "iter"
        /\ (loop.pc = "sleep" /\ loop'.pc # "sleep") => (loop'.pc = "top" /\ now >= loop.wake)
        /\ (loop.pc = "sleep" /\ Quiet /\ now >= loop.wake) => ENABLED LoopWake
        /\ (loop.pc = "top" /\ Quiet /\ running) => ENABLED LoopScan
      ]_vars

\* C12 witness: has_seen raised in a pass, the loop slept 30 s and stands at its next
\* iteration with the flag still set
C12_Witness ==
    /\ loop.fault = "has_seen"
    /\ loop.pc = "top"
    /\ running
    /\ now >= loop.wake
    /\ loop.wake >= LOOP_SLEEP

\* C13: after an evaluation in which an exception was raised (by the curve lookup, by
\* the scorer or by the alert callback) the token is not in processed_tokens.
C13_NoPartialCommit ==
    (Evaluated /\ (ev.outcome = "error" \/ ev.callback = "raised")) =>
        ev.token \notin processed_tokens

\* C14: a token enters evaluation only from the hot tokens of the pass, when it is not
\* in processed_tokens and has_seen returned false; when has_seen returns true the
\* token is dropped from the pass with no curve lookup, no alert and processed_tokens
\* unchanged.
C14_DedupGate ==
    [][ /\ (loop.pc = "iter" /\ loop'.pc = "eval") =>
              /\ loop'.cur \in loop.todo
              /\ loop'.cur \in DOMAIN loop.hot
              /\ loop'.cur \notin processed_tokens
              /\ loop'.seen = FALSE
        /\ (loop.pc = "iter" /\ loop'.pc = "iter" /\ loop'.todo # loop.todo
              /\ ev' # None /\ ev'.kind = "skip_seen") =>
              /\ ev'.seen = TRUE
              /\ loop'.todo = loop.todo \ {ev'.token}
              /\ UNCHANGED <<processed_tokens, alert_count, last_eval, rvars>>
      ]_vars

\* C14 witness: a hot token was skipped because has_seen returned true; it was never
\* evaluated and is not in processed_tokens
C14_Witness ==
    /\ ev # None
    /\ ev.kind = "skip_seen"
    /\ ev.seen
    /\ ev.token \in DOMAIN loop.hot
    /\ last_eval[ev.token] = None
    /\ ev.token \notin processed_tokens
    /\ inflight[Coord] = None

----------------------------------------------------------------------------
(* Claims about the scorer, checked under SpecScorer *)

\* the points of the highest tier of a factor that v reaches; tiers is a set of
\* <<threshold, points>> and Reaches(v, threshold) says that v qualifies for a tier
HighestTier(v, tiers, Reaches(_, _)) ==
    LET met == {t \in tiers : Reaches(v, t[1])}
    IN IF met = {} THEN 0
       ELSE (CHOOSE t \in met : \A u \in met : u[2] <= t[2])[2]

AtLeast(v, threshold) == v >= threshold

Above(v, threshold) == v > threshold

Below(v, threshold) == v < threshold

\* the score the table of the specification gives
TableScore(signal_data, curve_data) ==
      HighestTier(curve_data.completion_percent,
                  {<<Pct(20), 40>>, <<Pct(40), 30>>, <<Pct(60), 20>>, <<Pct(101), 10>>}, Below)
    + HighestTier(Len(signal_data.smart_money), {<<3, 50>>, <<2, 40>>, <<1, 30>>}, AtLeast)
    + HighestTier(Len(signal_data.kols), {<<2, 35>>, <<1, 25>>}, AtLeast)
    + HighestTier(Len(signal_data.telegram) + Len(signal_data.twitter),
                  {<<3, 30>>, <<2, 20>>, <<1, 10>>}, AtLeast)
    + HighestTier(signal_data.signal_count, {<<4, 25>>, <<3, 15>>}, AtLeast)
    + HighestTier(curve_data.volume_24h, {<<10000, 15>>}, Above)
    + HighestTier(curve_data.holder_count, {<<100, 10>>, <<50, 5>>}, Above)

\* C15: the score of every (snapshot, bundle) is the sum over the factors of the
\* points of the highest tier the factor reaches, one tier per factor; five
\* smart-money events count +50.
C15_ScoreIsTableSum ==
    (ev # None /\ ev.kind \in {"scored", "rescored"}) =>
        ev.score = TableScore(ev.signal_data, ev.curve_data)

\* C15 witness: five smart-money events alone, at 70 % of the curve, scored 10 + 50
C15_Witness ==
    /\ ev # None
    /\ ev.kind = "scored"
    /\ Len(ev.signal_data.smart_money) = 5
    /\ Len(ev.signal_data.kols) = 0
    /\ Len(ev.signal_data.telegram) + Len(ev.signal_data.twitter) = 0
    /\ ev.signal_data.signal_count = 0
    /\ ev.curve_data.completion_percent = Pct(70)
    /\ ev.curve_data.volume_24h = 10000
    /\ ev.curve_data.holder_count = 50
    /\ ev.score = 60

\* C16: with the snapshot and the other fields of the bundle fixed, more smart-money
\* events never lower the score.
C16_SmartMoneyMonotone ==
    (ev # None /\ ev.kind = "rescored") =>
        /\ ev.curve_data = ev.before.curve_data
        /\ ev.signal_data = [ev.before.signal_data EXCEPT !.smart_money = ev.signal_data.smart_money]
        /\ Len(ev.signal_data.smart_money) > Len(ev.before.signal_data.smart_money)
        /\ ev.score >= ev.before.score

\* C16 witness: from one smart-money event to three the score rose by 20
C16_Witness ==
    /\ ev # None
    /\ ev.kind = "rescored"
    /\ Len(ev.before.signal_data.smart_money) = 1
    /\ Len(ev.signal_data.smart_money) = 3
    /\ ev.score = ev.before.score + 20

----------------------------------------------------------------------------
(* Claims about the live feed, checked under SpecFeed *)

\* EarlySignalsMonitor.stop() has run
CoordinatorStopped == ~running /\ loop.pc # "init"

\* C17: after the coordinator's stop(), wherever the listener stands, neither the
\* live-feed connection nor the HTTP session of the curve resolver is open.
C17_StopClosesFeed ==
    CoordinatorStopped => (ws # "open" /\ session # "open")

\* C18: while the monitor runs, the listener connects again after every failure, and
\* every new connection attempt follows a backoff of 5 s: the listener goes back to
\* connecting only from its backoff, not before its end, and every failure while the
\* flag is set starts a backoff that ends 5 s later.
C18_ReconnectAfterBackoff ==
    [][ /\ (listener.pc \notin {"none", "connecting"} /\ listener'.pc = "connecting") =>
              (listener.pc = "backoff" /\ now >= listener.wake)
        /\ (listener.pc \in {"connecting", "recv"} /\ listener'.pc \notin {"connecting", "recv"}
              /\ bm_running) =>
              (listener'.pc = "backoff" /\ listener'.wake = now + RECONNECT_DELAY)
        /\ (listener.pc = "backoff" /\ now >= listener.wake /\ bm_running /\ ret = None) =>
              ENABLED ListenerBackoffDone
      ]_vars

----------------------------------------------------------------------------
(* Claims about the range scan, checked under SpecScan *)

\* the live tokens the scan owes: entry not older than max_age, completion in range
ExpectedInRange(min_pct, max_pct, max_age) ==
    { t \in Tokens :
        /\ live_tokens[t] # None
        /\ now - live_tokens[t].last_updated <= max_age
        /\ ExpectedLive(live_tokens[t]).completion_percent >= min_pct
        /\ ExpectedLive(live_tokens[t]).completion_percent <= max_pct }

\* C19: get_cached_tokens_by_curve_range(min_pct, max_pct, max_age) returns exactly
\* the tokens of live_tokens whose entry is at most max_age old and whose completion
\* percent lies in [min_pct, max_pct], with the values of the live entry, whatever
\* token_cache holds; it starts no pull and leaves live_tokens and token_cache
\* unchanged.
C19_RangeScanLiveOnly ==
    [][ (ev = None /\ ev' # None /\ ev'.kind = "range_scan") =>
            /\ DOMAIN ev'.result = ExpectedInRange(ev'.min_pct, ev'.max_pct, ev'.max_age)
            /\ \A t \in DOMAIN ev'.result :
                  ev'.result[t] =
                      [ completion_percent |-> ExpectedLive(live_tokens[t]).completion_percent,
                        market_cap_usd     |-> live_tokens[t].market_cap_usd,
                        source             |-> "websocket" ]
            /\ UNCHANGED <<live_tokens, token_cache, inflight, ret, session, now>>
      ]_vars

\* C19 witness: the scan returned t1 alone, its entry exactly max_age old and exactly
\* on min_pct, while t2 had a live entry too old for the scan and a cached snapshot
\* that lies in the range
C19_Witness ==
    /\ ev # None
    /\ ev.kind = "range_scan"
    /\ DOMAIN ev.result = {"t1"}
    /\ now - live_tokens["t1"].last_updated = ev.max_age
    /\ ev.max_age > 0
    /\ ev.result["t1"].completion_percent = ev.min_pct
    /\ live_tokens["t2"] # None
    /\ token_cache["t2"] # None
    /\ token_cache["t2"].data.completion_percent >= ev.min_pct
    /\ token_cache["t2"].data.completion_percent <= ev.max_pct

----------------------------------------------------------------------------
(* Claims about the aggregation window, checked under SpecAggregator *)

\* every stored event of t is older than max_age_seconds (also: t has none)
AllAgedOut(t, max_age_seconds) ==
    \A i \in DOMAIN events[t] : now - events[t][i].at > max_age_seconds

\* a query of get_hot_tokens, by the loop or by another task, returns no token whose
\* stored events are all older than the max_age_seconds of the query
QueryLeavesOutAged ==
    /\ (ev = None /\ ev' # None /\ ev'.kind = "hot_query") =>
          \A t \in Tokens :
              AllAgedOut(t, ev'.max_age_seconds) => t \notin DOMAIN ev'.result
    /\ (loop.pc = "top" /\ loop'.pc = "iter") =>
          \A t \in Tokens :
              AllAgedOut(t, SIGNAL_AGGREGATION_WINDOW) => t \notin DOMAIN loop'.hot

EventsInWindow(t, max_age_seconds) ==
    Cardinality({i \in DOMAIN events[t] : now - events[t][i].at <= max_age_seconds})

----------------------------------------------------------------------------
(* Claims about the loops after stop, checked under SpecStop *)

AggregationLoopEnded == loop.pc = "exit"

\* the listener task ended, or was never created
ListenerEnded == listener.pc \in {"none", "done"}

\* C22 as stated: once stop() of the coordinator has cleared the running flag, the
\* aggregation loop starts no further pass and ends, and the feed listener ends too.
C22_StopEndsEveryLoop ==
    /\ [][~running => ~(loop.pc = "top" /\ loop'.pc = "iter")]_vars
    /\ CoordinatorStopped ~> (AggregationLoopEnded /\ ListenerEnded)

\* the half of C22 the code keeps: once stop() of the coordinator has cleared the
\* running flag, the aggregation loop starts no further pass and ends
AggregationLoopEndsAfterStop ==
    /\ [][~running => ~(loop.pc = "top" /\ loop'.pc = "iter")]_vars
    /\ CoordinatorStopped ~> AggregationLoopEnded

\* once stop() of the bonding monitor itself has cleared its flag, the listener ends
ListenerEndsAfterBondingStop ==
    (~bm_running /\ listener.pc # "none") ~> (listener.pc = "done")

----------------------------------------------------------------------------
(* Claims about interleaved callers of the resolver, checked under SpecTasks *)

\* C23 as stated: the freshness check of token_cache and the insert into token_cache
\* are not separated by a suspension point, so two tasks never both miss the cache for
\* one token and both have a primary pull for it under way.
C23_NoDoubleFetch ==
    \A c1, c2 \in Callers :
        (c1 # c2 /\ inflight[c1] # None /\ inflight[c2] # None) =>
            inflight[c1].token # inflight[c2].token

----------------------------------------------------------------------------
(* Claims about repeated passes of one coordinator, checked under Spec *)

\* C24: the alert callback is invoked at most once per token: every invocation is
\* the first for its token, the token was not in processed_tokens before the
\* evaluation and is in it afterwards, whether the callback returned or raised.
C24_AtMostOneAlert ==
    [][ \A t \in Tokens :
            alert_count'[t] # alert_count[t] =>
                /\ alert_count[t] = 0
                /\ alert_count'[t] = 1
                /\ t \notin processed_tokens
                /\ t \in processed_tokens'
                /\ ev'.kind = "evaluated" /\ ev'.token = t
                /\ ev'.callback \in {"returned", "raised"}
      ]_vars

\* C24 witness: a token whose first evaluation found no curve data was alerted on a
\* later pass, the callback raised, and the token is processed with one invocation
C24_Witness ==
    /\ Evaluated
    /\ ev.previous # None
    /\ ev.previous.outcome = "no_curve"
    /\ ev.callback = "raised"
    /\ alert_count[ev.token] = 1
    /\ ev.token \in processed_tokens

----------------------------------------------------------------------------
(* Claims about one pass over several hot tokens, checked under SpecPass *)

\* C25: whatever the evaluation of one hot token raised (in the curve lookup, the
\* scoring or the alert callback), the loop goes on with the remaining hot tokens of
\* the same get_hot_tokens result: the end of an evaluation removes only its own
\* token from the tokens still to consider, and the pass ends by its sleep only when
\* none is left.
C25_ExceptionContained ==
    [][ /\ (loop.pc = "eval" /\ loop'.pc # "eval") =>
              /\ loop'.pc = "iter"
              /\ loop'.todo = loop.todo \ {loop.cur}
              /\ loop'.hot = loop.hot
              /\ loop'.fault = loop.fault
        /\ (loop.pc = "iter" /\ loop'.pc = "sleep" /\ loop'.fault = loop.fault) =>
              loop.todo = {}
      ]_vars

\* C25 witness: in the first pass the scoring of one hot token raised, and the other
\* hot token of the pass was evaluated all the same, up to its alert, whose callback
\* raised in turn
C25_Witness ==
    /\ Evaluated
    /\ now = 0
    /\ ev.outcome = "alerted"
    /\ ev.callback = "raised"
    /\ \E t \in DOMAIN loop.hot \ {ev.token} :
          /\ last_eval[t] # None
          /\ last_eval[t].outcome = "error"

=============================================================================
